---- MODULE Spec2Model ----
(***************************************************************************)
(* SparseVoxelTree (src/src/sparse_voxel_tree.{h,cpp}) and                 *)
(* VoxelTreeMemoryAllocator (src/src/voxel_tree_memory_allocator.{h,cpp}). *)
(*                                                                         *)
(* Representation of the C++ values:                                       *)
(*  - uint8_t, int32_t, size_t: integers (every value met here is far      *)
(*    below 2^31: an arena holds at most 64 + 4096 nodes and 64^3 bytes);  *)
(*  - uint64_t ChildMask and the 32-bit packed words: the set of the       *)
(*    positions of their 1 bits (bit b of the word is set iff b is in the  *)
(*    set), so | is \cup, & is \cap and popcount is Cardinality;           *)
(*  - std::vector<T>: a sequence; C++ index k is TLA+ index k + 1;         *)
(*  - glm::ivec3 / glm::vec3: a record [x, y, z]; glm::mat4: 4 rows of 4.  *)
(***************************************************************************)
EXTENDS Integers, Sequences, FiniteSets, TLC

VARIABLES
    pc,            \* "run", "building" inside a build run call by call, or "crashed"
                   \* once undefined behaviour or a failed assert killed the process
    voxelMap,      \* the VoxelMap handed to the constructor (main.cpp:93)
    tree,          \* the SparseVoxelTree object (main.cpp:97), NoTree before construction
    gpuTrees,      \* VoxelTreeMemoryAllocator::gpuTrees
    gpuNodePool,   \* VoxelTreeMemoryAllocator::gpuNodePool
    gpuLeafData,   \* VoxelTreeMemoryAllocator::gpuLeafData
    voxelTrees,    \* the vector the last Allocate call was given (main.cpp:100, 103)
    ret,           \* the last call and what it returned, NoRet once the caller took it
    build          \* the generateTree calls in progress, when a build is run call by call

vars == <<pc, voxelMap, tree, gpuTrees, gpuNodePool, gpuLeafData, voxelTrees, ret, build>>

----------------------------------------------------------------------------
(* Bounds of the model *)

\* longest vector of trees handed to Allocate
MaxTrees == 2

----------------------------------------------------------------------------
(* Values fixed by the program *)

\* the scale the root is generated and queried at
RootScale == 6
\* side of the grid ToVoxelMap allocates
SpanSide == 64

Origin == [x |-> 0, y |-> 0, z |-> 0]

NoTree == [status |-> "none"]
NoMap == [status |-> "none"]
NoRet == [op |-> "none"]
NoBuild == [stack |-> << >>, oob |-> 0, step |-> "none",
            call |-> [scale |-> 0, pos |-> Origin],
            returned |-> [IsLeaf |-> 0, ChildPtr |-> 0, ChildMask |-> {}]]

----------------------------------------------------------------------------
(* Bit operations on 64-bit masks *)

\* popcount64 returns the number of 1 bits of x (a SWAR sum in the source)
popcount64(x) == Cardinality(x)

\* 1ull << index.  A shift count outside 0..63 is undefined behaviour: the
\* builds either use the low 6 bits of the count ("wrap", x86-64 and AArch64
\* shift instructions) or give 0 ("zero", shifts done in two 32-bit halves).
ShiftLeftOne(index, shift) ==
    IF index \in 0..63 THEN {index}
    ELSE IF shift = "wrap" THEN {index % 64}
    ELSE {}

\* a mask that leaves out the bit just below index
BelowBitShort(index, shift) == {b \in 0..63 : b + 1 < index}

\* (1ull << index) - 1
BelowBit(index, shift) ==
    IF index \in 0..63 THEN {b \in 0..63 : b < index}
    ELSE IF shift = "wrap" THEN {b \in 0..63 : b < index % 64}
    ELSE 0..63

\* v >> k on an int32_t (arithmetic shift), k >= 0
ShiftRight(v, k) == v \div (2^k)

----------------------------------------------------------------------------
(* Loops *)

\* for (i = lo; i < hi; ++i) acc = Body(i, acc), from acc = start.  The range
\* is run in two halves, the first before the second (an argument is
\* evaluated when it is first used: the test first = first uses it), which
\* keeps the depth of the evaluation logarithmic in hi - lo.
RECURSIVE For(_, _, _, _)
For(Body(_, _), lo, hi, start) ==
    IF hi <= lo THEN start
    ELSE IF hi = lo + 1 THEN Body(lo, start)
    ELSE LET first == For(Body, lo, (lo + hi) \div 2, start)
         IN IF first = first THEN For(Body, (lo + hi) \div 2, hi, first) ELSE first

----------------------------------------------------------------------------
(* VoxelMap *)

\* voxelMap.voxels[index]: reading at or past the end of the vector is
\* undefined behaviour; oob is the byte such a read gives in this run
\* (OobCrash when the read faults).
OobCrash == 0 - 1
VoxelRead(vm, index, oob) ==
    IF index < Len(vm.voxels) THEN vm.voxels[index + 1] ELSE oob

----------------------------------------------------------------------------
(* SparseVoxelTree: construction *)

\* a mask built in 32 bits: the bytes 32..63 set nothing
PackBits64Low(data) == {i \in 0..31 : data[i] # 0}

\* a mask that sets the bits of the zero bytes
PackBits64Zeroes(data) == {i \in 0..63 : data[i] = 0}

\* a mask that sets a bit only for bytes above 1
PackBits64AboveOne(data) == {i \in 0..63 : data[i] > 1}

\* PackBits64: bit i is set iff data[i] != 0
PackBits64(data) == {i \in 0..63 : data[i] # 0}

\* a compaction that fills the buffer with the first byte the mask selects
LeftPackFirstOnly(data, mask) ==
    IF mask = {} THEN data
    ELSE [i \in 0..63 |-> data[CHOOSE b \in mask : \A c \in mask : b <= c]] @@ << >>

\* a compaction that leaves the buffer as it is
LeftPackInPlace(data, mask) == data

\* LeftPack: the loop over i = 0..63 with its write index; gives data after it
LeftPack(data, mask) ==
    For(LAMBDA i, acc :
            IF i \in mask
            THEN [data |-> [acc.data EXCEPT ![acc.writeIndex] = acc.data[i]],
                  writeIndex |-> acc.writeIndex + 1]
            ELSE acc,
        0, 64, [data |-> data, writeIndex |-> 0]).data

\* static_cast<uint32_t>(v) < size for an int32_t v: a negative v becomes a
\* value of at least 2^31, above every size used here
LessU32(v, size) == v >= 0 /\ v < size

\* The cube of side 2^scale at pos has no cell inside the map.  Each of its
\* cells has x >= pos.x, y >= pos.y and z >= pos.z, so when a component of
\* pos is at or past the map's size the test of lines 85-87 fails for every
\* cell of every tile of the cube: temp stays zero, every leaf returns
\* ChildMask 0 and appends nothing, line 114 keeps no child, and the call
\* returns ChildMask 0 with both arenas as they were.
CubeOutside(vm, pos) ==
    \/ ~LessU32(pos.x, vm.size_x)
    \/ ~LessU32(pos.y, vm.size_y)
    \/ ~LessU32(pos.z, vm.size_z)

\* the tile read with the x and y offsets of cell i in each other's place
TileCellSwapped(vm, pos, i, oob) ==
    LET x == pos.x + ((i \div 4) % 4)
        y == pos.y + (i % 4)
        z == pos.z + ((i \div 16) % 4)
    IN IF LessU32(x, vm.size_x) /\ LessU32(y, vm.size_y) /\ LessU32(z, vm.size_z)
       THEN VoxelRead(vm, x + y * vm.size_x + z * vm.size_x * vm.size_y, oob)
       ELSE 0

\* the loop of lines 79-92: temp[i] for the tile at pos
TileCell(vm, pos, i, oob) ==
    LET x == pos.x + (i % 4)
        y == pos.y + ((i \div 4) % 4)
        z == pos.z + ((i \div 16) % 4)
    IN IF LessU32(x, vm.size_x) /\ LessU32(y, vm.size_y) /\ LessU32(z, vm.size_z)
       THEN VoxelRead(vm, x + y * vm.size_x + z * vm.size_x * vm.size_y, oob)
       ELSE 0

\* a leaf case that appends all 64 bytes of the packed tile
generateLeafWholeTile(vm, pos, oob, arena) ==
    LET temp == [i \in 0..63 |-> TileCell(vm, pos, i, oob)] @@ << >>
        mask == PackBits64(temp)
        left == LeftPack(temp, mask)
    IN [node |-> [IsLeaf |-> 1, ChildPtr |-> Len(arena.leafData), ChildMask |-> mask],
        nodePool |-> arena.nodePool,
        leafData |-> arena.leafData \o [k \in 1..64 |-> left[k - 1]],
        fault |-> arena.fault \/ \E i \in 0..63 : temp[i] = OobCrash]

\* a leaf case that leaves IsLeaf at the 0 of line 69
generateLeafUnmarked(vm, pos, oob, arena) ==
    LET temp == [i \in 0..63 |-> TileCell(vm, pos, i, oob)] @@ << >>
        mask == PackBits64(temp)
        left == LeftPack(temp, mask)
    IN [node |-> [IsLeaf |-> 0, ChildPtr |-> Len(arena.leafData), ChildMask |-> mask],
        nodePool |-> arena.nodePool,
        leafData |-> arena.leafData \o [k \in 1..popcount64(mask) |-> left[k - 1]],
        fault |-> arena.fault \/ \E i \in 0..63 : temp[i] = OobCrash]

\* the leaf case of generateTree, lines 74-101, on the arenas `arena`
generateLeaf(vm, pos, oob, arena) ==
    LET temp == [i \in 0..63 |-> TileCell(vm, pos, i, oob)] @@ << >>
        mask == PackBits64(temp)
        left == LeftPack(temp, mask)
    IN [node |-> [IsLeaf |-> 1, ChildPtr |-> Len(arena.leafData), ChildMask |-> mask],
        nodePool |-> arena.nodePool,
        leafData |-> arena.leafData \o [k \in 1..popcount64(mask) |-> left[k - 1]],
        fault |-> arena.fault \/ \E i \in 0..63 : temp[i] = OobCrash]

\* generateTree(voxelMap, scale, pos) on the arenas `arena` ([nodePool,
\* leafData, fault]); gives [node, nodePool, leafData, fault]: the returned
\* node and the arenas after the call.  fault: a read of voxels past its end
\* faulted.  With prune, a call on a cube outside the map is given its result
\* without running its loops (see CubeOutside); without, every loop is run.
RECURSIVE generateNode(_, _, _, _, _, _)
generateNode(vm, scale, pos, oob, arena, prune) ==
    IF prune /\ CubeOutside(vm, pos)
    THEN [node |-> [IsLeaf |-> IF scale = 2 THEN 1 ELSE 0,
                    ChildPtr |-> IF scale = 2 THEN Len(arena.leafData) ELSE Len(arena.nodePool),
                    ChildMask |-> {}],
          nodePool |-> arena.nodePool, leafData |-> arena.leafData, fault |-> arena.fault]
    ELSE IF scale = 2
    THEN generateLeaf(vm, pos, oob, arena)
    ELSE LET r == For(LAMBDA i, acc :
                        LET childPos == [x |-> i % 4, y |-> (i \div 4) % 4, z |-> (i \div 16) % 4]
                            child == generateNode(vm, scale - 2,
                                         [x |-> pos.x + childPos.x * 2^(scale - 2),
                                          y |-> pos.y + childPos.y * 2^(scale - 2),
                                          z |-> pos.z + childPos.z * 2^(scale - 2)],
                                         oob,
                                         [nodePool |-> acc.nodePool, leafData |-> acc.leafData,
                                          fault |-> acc.fault],
                                         prune)
                        IN IF child.node.ChildMask # {}
                           THEN [ChildMask |-> acc.ChildMask \cup {i},
                                 children |-> Append(acc.children, child.node),
                                 nodePool |-> child.nodePool, leafData |-> child.leafData,
                                 fault |-> child.fault]
                           ELSE [ChildMask |-> acc.ChildMask, children |-> acc.children,
                                 nodePool |-> child.nodePool, leafData |-> child.leafData,
                                 fault |-> child.fault],
                      0, 64,
                      [ChildMask |-> {}, children |-> << >>, nodePool |-> arena.nodePool,
                       leafData |-> arena.leafData, fault |-> arena.fault])
         IN [node |-> [IsLeaf |-> 0, ChildPtr |-> Len(r.nodePool), ChildMask |-> r.ChildMask],
             nodePool |-> r.nodePool \o r.children,
             leafData |-> r.leafData,
             fault |-> r.fault]

generateTree(vm, scale, pos, oob, arena) == generateNode(vm, scale, pos, oob, arena, TRUE)

\* a GenerateTree without the two clear() calls: it generates onto the arenas
\* the tree holds
GenerateTreeOntoArenas(t, vm, oob) ==
    LET r == generateTree(vm, RootScale, Origin, oob,
                          [nodePool |-> t.nodePool, leafData |-> t.leafData, fault |-> FALSE])
    IN [tree |-> [t EXCEPT !.root = r.node, !.nodePool = r.nodePool, !.leafData = r.leafData],
        fault |-> r.fault]

\* a GenerateTree whose root points at the start of nodePool
GenerateTreeRootAtStart(t, vm, oob) ==
    LET r == generateTree(vm, RootScale, Origin, oob,
                          [nodePool |-> << >>, leafData |-> << >>, fault |-> FALSE])
    IN [tree |-> [t EXCEPT !.root = [r.node EXCEPT !.ChildPtr = 0],
                           !.nodePool = r.nodePool, !.leafData = r.leafData],
        fault |-> r.fault]

\* GenerateTree on the tree object t: clears the arenas and generates from
\* the root.  Gives the tree after the call and whether the call faulted.
GenerateTree(t, vm, oob) ==
    LET r == generateTree(vm, RootScale, Origin, oob,
                          [nodePool |-> << >>, leafData |-> << >>, fault |-> FALSE])
    IN [tree |-> [t EXCEPT !.root = r.node, !.nodePool = r.nodePool, !.leafData = r.leafData],
        fault |-> r.fault]

Identity4 == <<<<1, 0, 0, 0>>, <<0, 1, 0, 0>>, <<0, 0, 1, 0>>, <<0, 0, 0, 1>>>>

\* static_cast<float>(v) of a uint32_t v (glm::vec3 of three uint32_t): a
\* float has a 24-bit significand, so v below 2^24 is kept and a larger v is
\* rounded to the nearest multiple of the spacing at v, ties to the even one
ToFloat(v) ==
    IF v < 2^24 THEN v
    ELSE LET step == CHOOSE s \in {2^k : k \in 1..7} : v \div s \in (2^23)..(2^24 - 1)
             q == v \div step
             r == v % step
         IN IF 2 * r > step \/ (2 * r = step /\ q % 2 = 1) THEN (q + 1) * step ELSE q * step

\* a constructor that gives every tree the unit box
SparseVoxelTreeUnitBox(vm, oob) ==
    GenerateTree([status |-> "built",
                  root |-> [IsLeaf |-> 0, ChildPtr |-> 0, ChildMask |-> {}],
                  nodePool |-> << >>, leafData |-> << >>,
                  AABBMin |-> [x |-> 0, y |-> 0, z |-> 0],
                  AABBMax |-> [x |-> 1, y |-> 1, z |-> 1],
                  Transform |-> Identity4],
                 vm, oob)

\* the constructor
SparseVoxelTree(vm, oob) ==
    GenerateTree([status |-> "built",
                  root |-> [IsLeaf |-> 0, ChildPtr |-> 0, ChildMask |-> {}],
                  nodePool |-> << >>, leafData |-> << >>,
                  AABBMin |-> [x |-> 0, y |-> 0, z |-> 0],
                  AABBMax |-> [x |-> ToFloat(vm.size_x), y |-> ToFloat(vm.size_y),
                               z |-> ToFloat(vm.size_z)],
                  Transform |-> Identity4],
                 vm, oob)

----------------------------------------------------------------------------
(* SparseVoxelTree: queries *)

GetTotalVoxels(t) == Len(t.leafData)

\* at(node, scale, pos, x, y, z) on tree t.  Gives the returned byte with
\* what the descent computed: bits, the child / cell bit indices in order;
\* nodeReads and leafReads, the nodePool and leafData indices it read.
\* fault: a read outside an arena (undefined behaviour) ended the call.
RECURSIVE at(_, _, _, _, _, _, _, _)
at(t, node, scale, pos, x, y, z, shift) ==
    IF node.IsLeaf = 1
    THEN LET localX == x - pos.x
             localY == y - pos.y
             localZ == z - pos.z
             index == localX + localY * 4 + localZ * 16
         IN IF node.ChildMask \cap ShiftLeftOne(index, shift) # {}
            THEN LET dataIndex == node.ChildPtr
                                  + popcount64(node.ChildMask \cap BelowBit(index, shift))
                     inside == dataIndex \in 0..(Len(t.leafData) - 1)
                 IN [val |-> IF inside THEN t.leafData[dataIndex + 1] ELSE 0,
                     fault |-> ~inside,
                     bits |-> <<index>>, nodeReads |-> << >>, leafReads |-> <<dataIndex>>]
            ELSE [val |-> 0, fault |-> FALSE,
                  bits |-> <<index>>, nodeReads |-> << >>, leafReads |-> << >>]
    ELSE LET childIndex == ShiftRight(x - pos.x, scale - 2)
                           + ShiftRight(y - pos.y, scale - 2) * 4
                           + ShiftRight(z - pos.z, scale - 2) * 16
         IN IF node.ChildMask \cap ShiftLeftOne(childIndex, shift) # {}
            THEN LET childPtr == node.ChildPtr
                                 + popcount64(node.ChildMask \cap BelowBit(childIndex, shift))
                     inside == childPtr \in 0..(Len(t.nodePool) - 1)
                     childPos == [x |-> pos.x + (childIndex % 4) * 2^(scale - 2),
                                  y |-> pos.y + ((childIndex \div 4) % 4) * 2^(scale - 2),
                                  z |-> pos.z + ((childIndex \div 16) % 4) * 2^(scale - 2)]
                 IN IF inside
                    THEN LET r == at(t, t.nodePool[childPtr + 1], scale - 2, childPos, x, y, z, shift)
                         IN [r EXCEPT !.bits = <<childIndex>> \o r.bits,
                                      !.nodeReads = <<childPtr>> \o r.nodeReads]
                    ELSE [val |-> 0, fault |-> TRUE,
                          bits |-> <<childIndex>>, nodeReads |-> <<childPtr>>, leafReads |-> << >>]
            ELSE [val |-> 0, fault |-> FALSE,
                  bits |-> <<childIndex>>, nodeReads |-> << >>, leafReads |-> << >>]

At(t, x, y, z, shift) == at(t, t.root, RootScale, Origin, x, y, z, shift)

\* A std::vector<uint8_t> made by resize(n, 0) and then written cell by cell:
\* its length and the cells written so far (every other cell is 0).
ZeroVector(n) == [len |-> n, cells |-> << >>]
ZvRead(v, index) == IF index \in DOMAIN v.cells THEN v.cells[index] ELSE 0
ZvWrite(v, index, byte) == [v EXCEPT !.cells = (index :> byte) @@ @]

\* fillVoxelMap(voxelMap, node, scale, pos) on tree t; gives the voxelMap after it
RECURSIVE fillVoxelMap(_, _, _, _, _)
fillVoxelMap(t, vm, node, scale, pos) ==
    IF node.IsLeaf = 1
    THEN For(LAMBDA i, acc :
                IF i \in node.ChildMask
                THEN LET x == pos.x + (i % 4)
                         y == pos.y + ((i \div 4) % 4)
                         z == pos.z + ((i \div 16) % 4)
                         index == x + y * acc.size_x + z * acc.size_x * acc.size_y
                         dataIndex == node.ChildPtr
                                      + popcount64(node.ChildMask \cap BelowBit(i, "wrap"))
                     IN IF LessU32(x, acc.size_x) /\ LessU32(y, acc.size_y) /\ LessU32(z, acc.size_z)
                        THEN [acc EXCEPT !.voxels = ZvWrite(@, index, t.leafData[dataIndex + 1])]
                        ELSE acc
                ELSE acc,
             0, 64, vm)
    ELSE For(LAMBDA i, acc :
                IF i \in node.ChildMask
                THEN LET childPtr == node.ChildPtr
                                     + popcount64(node.ChildMask \cap BelowBit(i, "wrap"))
                         childPos == [x |-> pos.x + (i % 4) * 2^(scale - 2),
                                      y |-> pos.y + ((i \div 4) % 4) * 2^(scale - 2),
                                      z |-> pos.z + ((i \div 16) % 4) * 2^(scale - 2)]
                     IN fillVoxelMap(t, acc, t.nodePool[childPtr + 1], scale - 2, childPos)
                ELSE acc,
             0, 64, vm)

\* a reconstruction that allocates the grid and fills nothing in
ToVoxelMapUnfilled(t) ==
    [size_x |-> SpanSide, size_y |-> SpanSide, size_z |-> SpanSide,
     voxels |-> ZeroVector(SpanSide * SpanSide * SpanSide)]

ToVoxelMap(t) ==
    fillVoxelMap(t,
                 [size_x |-> SpanSide, size_y |-> SpanSide, size_z |-> SpanSide,
                  voxels |-> ZeroVector(SpanSide * SpanSide * SpanSide)],
                 t.root, RootScale, Origin)

\* CompareVoxelMaps(original, reconstructed), voxel_map.cpp:31-54: the loops
\* over the cells of original, both vectors read at the index line 41 computes
\* from original's sizes.  count is the total it prints; fault: a read past
\* the end of a vector faulted (oob as in VoxelRead).
CompareVoxelMaps(original, reconstructed, oob) ==
    LET cells == IF original.size_x = 0 \/ original.size_y = 0 \/ original.size_z = 0
                 THEN {}
                 ELSE (0..(original.size_x - 1)) \X (0..(original.size_y - 1))
                      \X (0..(original.size_z - 1))
        index(c) == c[1] + c[2] * original.size_x + c[3] * original.size_x * original.size_y
        inOriginal(c) == VoxelRead(original, index(c), oob)
        inReconstructed(c) ==
            IF index(c) < reconstructed.voxels.len THEN ZvRead(reconstructed.voxels, index(c))
            ELSE oob
    IN [count |-> Cardinality({c \in cells : inOriginal(c) # inReconstructed(c)}),
        fault |-> \E c \in cells : inOriginal(c) = OobCrash \/ inReconstructed(c) = OobCrash]

\* the VoxelMap ToVoxelMap returned, as the constructor reads it: its vector
\* as the sequence of its len bytes
ReturnedMap(vm) ==
    [size_x |-> vm.size_x, size_y |-> vm.size_y, size_z |-> vm.size_z,
     voxels |-> [k \in 1..vm.voxels.len |-> ZvRead(vm.voxels, k - 1)] \o << >>]

----------------------------------------------------------------------------
(* VoxelTreeMemoryAllocator *)

\* the 1 bits of the unsigned value v among bits 0..w-1
BitsOf(v, w) == {b \in 0..(w - 1) : (v \div (2^b)) % 2 = 1}

\* a packing with the two halves of the mask in each other's word
PackNodeSwapped(node) ==
    [w0 |-> BitsOf(node.ChildPtr, 31) \cup (IF node.IsLeaf = 1 THEN {31} ELSE {}),
     w1 |-> {b - 32 : b \in {c \in node.ChildMask : c >= 32}},
     w2 |-> {b \in node.ChildMask : b < 32}]

\* GPUSparseVoxelTreeNode::PackedData[0..2] of a node:
\* (IsLeaf << 31) | ChildPtr, (uint32_t)ChildMask, (uint32_t)(ChildMask >> 32)
PackNode(node) ==
    [w0 |-> BitsOf(node.ChildPtr, 31) \cup (IF node.IsLeaf = 1 THEN {31} ELSE {}),
     w1 |-> {b \in node.ChildMask : b < 32},
     w2 |-> {b - 32 : b \in {c \in node.ChildMask : c >= 32}}]

\* the buffers left as the earlier call filled them, with both offsets at 0
KeptBuffers ==
    [gpuTrees |-> gpuTrees, gpuNodePool |-> gpuNodePool, gpuLeafData |-> gpuLeafData,
     nodeOffset |-> 0, leafOffset |-> 0]

\* the allocator's buffers after clear(), with both offsets at 0
Cleared ==
    [gpuTrees |-> << >>, gpuNodePool |-> << >>, gpuLeafData |-> << >>,
     nodeOffset |-> 0, leafOffset |-> 0]

\* a packing that records the offsets after the tree's arenas were appended
PackVoxelTreeLateOffsets(t, st) ==
    [gpuTrees |-> Append(st.gpuTrees,
                         [Root |-> PackNode(t.root),
                          AABBMin |-> t.AABBMin, AABBMax |-> t.AABBMax,
                          Transform |-> t.Transform,
                          NodePoolPtr |-> st.nodeOffset + Len(t.nodePool),
                          LeafDataPtr |-> st.leafOffset + Len(t.leafData)]),
     gpuNodePool |-> st.gpuNodePool \o [i \in 1..Len(t.nodePool) |-> PackNode(t.nodePool[i])],
     gpuLeafData |-> st.gpuLeafData \o t.leafData,
     nodeOffset |-> st.nodeOffset + Len(t.nodePool),
     leafOffset |-> st.leafOffset + Len(t.leafData)]

\* a packing that leaves both offsets as they were
PackVoxelTreeFixedOffsets(t, st) ==
    [gpuTrees |-> Append(st.gpuTrees,
                         [Root |-> PackNode(t.root),
                          AABBMin |-> t.AABBMin, AABBMax |-> t.AABBMax,
                          Transform |-> t.Transform,
                          NodePoolPtr |-> st.nodeOffset, LeafDataPtr |-> st.leafOffset]),
     gpuNodePool |-> st.gpuNodePool \o [i \in 1..Len(t.nodePool) |-> PackNode(t.nodePool[i])],
     gpuLeafData |-> st.gpuLeafData \o t.leafData,
     nodeOffset |-> st.nodeOffset,
     leafOffset |-> st.leafOffset]

\* a packing that puts the tree's nodes and bytes in front of the buffers
PackVoxelTreeInFront(t, st) ==
    [gpuTrees |-> Append(st.gpuTrees,
                         [Root |-> PackNode(t.root),
                          AABBMin |-> t.AABBMin, AABBMax |-> t.AABBMax,
                          Transform |-> t.Transform,
                          NodePoolPtr |-> st.nodeOffset, LeafDataPtr |-> st.leafOffset]),
     gpuNodePool |-> [i \in 1..Len(t.nodePool) |-> PackNode(t.nodePool[i])] \o st.gpuNodePool,
     gpuLeafData |-> t.leafData \o st.gpuLeafData,
     nodeOffset |-> st.nodeOffset + Len(t.nodePool),
     leafOffset |-> st.leafOffset + Len(t.leafData)]

\* a packing that makes each node's ChildPtr an index into the flat buffers
PackVoxelTreeAbsolutePtrs(t, st) ==
    [gpuTrees |-> Append(st.gpuTrees,
                         [Root |-> PackNode([t.root EXCEPT !.ChildPtr = @ + st.nodeOffset]),
                          AABBMin |-> t.AABBMin, AABBMax |-> t.AABBMax,
                          Transform |-> t.Transform,
                          NodePoolPtr |-> st.nodeOffset, LeafDataPtr |-> st.leafOffset]),
     gpuNodePool |-> st.gpuNodePool
                     \o [i \in 1..Len(t.nodePool) |->
                            PackNode([t.nodePool[i] EXCEPT
                                         !.ChildPtr = @ + (IF t.nodePool[i].IsLeaf = 1
                                                           THEN st.leafOffset
                                                           ELSE st.nodeOffset)])],
     gpuLeafData |-> st.gpuLeafData \o t.leafData,
     nodeOffset |-> st.nodeOffset + Len(t.nodePool),
     leafOffset |-> st.leafOffset + Len(t.leafData)]

\* PackVoxelTree(tree, nodeOffset, leafOffset): the buffers and offsets after it
\* (the descriptor's fields are the ones lines 38-44 assign: AABBMin, AABBMax,
\* Transform, NodePoolPtr, LeafDataPtr; sparse_voxel_tree.h:129 declares the
\* box as one member, Bounds)
PackVoxelTree(t, st) ==
    [gpuTrees |-> Append(st.gpuTrees,
                         [Root |-> PackNode(t.root),
                          AABBMin |-> t.AABBMin, AABBMax |-> t.AABBMax,
                          Transform |-> t.Transform,
                          NodePoolPtr |-> st.nodeOffset, LeafDataPtr |-> st.leafOffset]),
     gpuNodePool |-> st.gpuNodePool \o [i \in 1..Len(t.nodePool) |-> PackNode(t.nodePool[i])],
     gpuLeafData |-> st.gpuLeafData \o t.leafData,
     nodeOffset |-> st.nodeOffset + Len(t.nodePool),
     leafOffset |-> st.leafOffset + Len(t.leafData)]

\* Allocate(voxelTrees): the three clear() calls, then PackVoxelTree on each
\* tree in order
Allocate(list) ==
    For(LAMBDA k, st : PackVoxelTree(list[k + 1], st), 0, Len(list), Cleared)

\* what the read gpuNodePool[NodePoolPtr + i] past the end of the vector does:
\* a fault, or a node that differs from or equals the one it is compared with
OobNodeOutcomes == {"crash", "differs", "equal"}

\* a comparison that takes gpuTrees[index] without the test of the index
CompareTreeUnchecked(g, t, index, oob) ==
    IF index >= Len(g.gpuTrees) THEN [val |-> FALSE, fault |-> TRUE, oobRead |-> TRUE]
    ELSE [val |-> g.gpuTrees[index + 1].AABBMax = t.AABBMax, fault |-> FALSE, oobRead |-> FALSE]

\* a comparison whose node loop goes on after a node that differs and gives
\* its verdict at the end of the loop
CompareTreeReadsOn(g, t, index, oob) ==
    IF index >= Len(g.gpuTrees) THEN [val |-> FALSE, fault |-> FALSE, oobRead |-> FALSE]
    ELSE LET gpuTree == g.gpuTrees[index + 1]
             nodes == Len(g.gpuNodePool)
             bytes == Len(g.gpuLeafData)
             past == \E i \in 0..(Len(t.nodePool) - 1) :
                        i < nodes /\ gpuTree.NodePoolPtr + i >= nodes
             differs ==
                 \/ Len(t.nodePool) > nodes
                 \/ \E i \in 0..(Len(t.nodePool) - 1) :
                        /\ gpuTree.NodePoolPtr + i < nodes
                        /\ g.gpuNodePool[gpuTree.NodePoolPtr + i + 1] # PackNode(t.nodePool[i + 1])
                 \/ \E i \in 0..(Len(t.leafData) - 1) :
                        \/ gpuTree.LeafDataPtr + i >= bytes
                        \/ g.gpuLeafData[gpuTree.LeafDataPtr + i + 1] # t.leafData[i + 1]
         IN IF \/ gpuTree.AABBMin # t.AABBMin
               \/ gpuTree.AABBMax # t.AABBMax
               \/ gpuTree.Transform # t.Transform
               \/ gpuTree.NodePoolPtr >= nodes \/ gpuTree.LeafDataPtr >= bytes
            THEN [val |-> FALSE, fault |-> FALSE, oobRead |-> FALSE]
            ELSE [val |-> ~differs /\ (past => oob = "equal"),
                  fault |-> past /\ oob = "crash", oobRead |-> past]

\* CompareTree(tree, index) on the buffers g; val is the value returned,
\* fault a crash in a read past the end, oobRead whether such a read was made
CompareTree(g, t, index, oob) ==
    IF index >= Len(g.gpuTrees) THEN [val |-> FALSE, fault |-> FALSE, oobRead |-> FALSE]
    ELSE LET gpuTree == g.gpuTrees[index + 1]
             nodes == Len(g.gpuNodePool)
             bytes == Len(g.gpuLeafData)
             \* the first i at which the node loop returns or reads past the end
             stops == {i \in 0..(Len(t.nodePool) - 1) :
                          \/ i >= nodes
                          \/ gpuTree.NodePoolPtr + i >= nodes
                          \/ g.gpuNodePool[gpuTree.NodePoolPtr + i + 1] # PackNode(t.nodePool[i + 1])}
             first == CHOOSE i \in stops : \A j \in stops : i <= j
             leafDiffers ==
                 \E i \in 0..(Len(t.leafData) - 1) :
                     \/ gpuTree.LeafDataPtr + i >= bytes
                     \/ g.gpuLeafData[gpuTree.LeafDataPtr + i + 1] # t.leafData[i + 1]
         IN IF \/ gpuTree.AABBMin # t.AABBMin
               \/ gpuTree.AABBMax # t.AABBMax
               \/ gpuTree.Transform # t.Transform
            THEN [val |-> FALSE, fault |-> FALSE, oobRead |-> FALSE]
            ELSE IF gpuTree.NodePoolPtr >= nodes \/ gpuTree.LeafDataPtr >= bytes
            THEN [val |-> FALSE, fault |-> FALSE, oobRead |-> FALSE]
            ELSE IF stops # {} /\ first < nodes /\ gpuTree.NodePoolPtr + first >= nodes
            THEN \* the read at first is past the end of gpuNodePool
                 IF oob = "crash" THEN [val |-> FALSE, fault |-> TRUE, oobRead |-> TRUE]
                 ELSE IF oob = "differs" THEN [val |-> FALSE, fault |-> FALSE, oobRead |-> TRUE]
                 ELSE \* every later read is past the end as well, or i reaches the size
                      IF Len(t.nodePool) > nodes
                      THEN [val |-> FALSE, fault |-> FALSE, oobRead |-> TRUE]
                      ELSE [val |-> ~leafDiffers, fault |-> FALSE, oobRead |-> TRUE]
            ELSE IF stops # {} THEN [val |-> FALSE, fault |-> FALSE, oobRead |-> FALSE]
            ELSE [val |-> ~leafDiffers, fault |-> FALSE, oobRead |-> FALSE]

----------------------------------------------------------------------------
(* The VoxelMaps of the model *)

\* the byte vector <<byte(0), ..., byte(n - 1)>>
Bytes(n, byte(_)) == [k \in 1..n |-> byte(k - 1)] \o << >>

\* a map of the given size whose non-zero voxels are cells, a set of <<x, y, z, byte>>
MakeMap(sx, sy, sz, cells) ==
    LET byte(index) ==
            LET here == {c \in cells : c[1] + c[2] * sx + c[3] * sx * sy = index}
            IN IF here = {} THEN 0 ELSE (CHOOSE c \in here : TRUE)[4]
    IN [size_x |-> sx, size_y |-> sy, size_z |-> sz, voxels |-> Bytes(sx * sy * sz, byte)]

\* every cell non-zero
DenseMap(sx, sy, sz) ==
    LET byte(index) == ((index * 7) % 255) + 1
    IN [size_x |-> sx, size_y |-> sy, size_z |-> sz, voxels |-> Bytes(sx * sy * sz, byte)]

\* two cells of three non-zero
StripedMap(sx, sy, sz) ==
    LET byte(index) == IF index % 3 = 0 THEN 0 ELSE (index % 255) + 1
    IN [size_x |-> sx, size_y |-> sy, size_z |-> sz, voxels |-> Bytes(sx * sy * sz, byte)]

\* maps whose sizes are within the span and whose buffer has size_x*size_y*size_z bytes
ValidMaps ==
    { MakeMap(0, 0, 0, {}),
      MakeMap(1, 1, 1, {}),
      MakeMap(1, 1, 1, {<<0, 0, 0, 7>>}),
      MakeMap(1, 1, 1, {<<0, 0, 0, 9>>}),
      MakeMap(4, 4, 4, {}),
      MakeMap(17, 5, 3, {}),
      MakeMap(4, 4, 4, {<<1, 2, 3, 7>>}),
      MakeMap(5, 1, 1, {<<0, 0, 0, 1>>}),
      MakeMap(5, 1, 1, {<<0, 0, 0, 1>>, <<4, 0, 0, 2>>}),
      MakeMap(5, 1, 1, {<<4, 0, 0, 2>>}),
      MakeMap(17, 2, 1, {<<16, 1, 0, 255>>, <<3, 0, 0, 4>>, <<15, 1, 0, 5>>}),
      MakeMap(64, 1, 1, {<<0, 0, 0, 1>>, <<63, 0, 0, 255>>, <<16, 0, 0, 3>>}),
      MakeMap(1, 64, 1, {<<0, 63, 0, 8>>, <<0, 17, 0, 1>>}),
      MakeMap(1, 1, 64, {<<0, 0, 63, 6>>, <<0, 0, 4, 6>>}),
      MakeMap(6, 5, 17, {<<0, 0, 0, 1>>, <<5, 4, 16, 2>>, <<3, 4, 3, 3>>, <<4, 4, 4, 4>>, <<1, 0, 16, 9>>}),
      DenseMap(2, 3, 2),
      DenseMap(5, 5, 5),
      StripedMap(17, 3, 2),
      StripedMap(3, 6, 17) }

\* a size above the span, or a buffer that is not size_x*size_y*size_z long
MalformedMaps ==
    { MakeMap(65, 1, 1, {<<0, 0, 0, 1>>, <<64, 0, 0, 2>>}),
      MakeMap(1, 1, 66, {<<0, 0, 65, 3>>}),
      [size_x |-> 2, size_y |-> 1, size_z |-> 1, voxels |-> <<5>>],
      [size_x |-> 1, size_y |-> 1, size_z |-> 1, voxels |-> <<5, 6>>],
      [size_x |-> 2, size_y |-> 2, size_z |-> 1, voxels |-> <<0, 0>>],
      [size_x |-> 16777217, size_y |-> 0, size_z |-> 0, voxels |-> << >>] }

Maps == ValidMaps \cup MalformedMaps

WellFormed(vm) ==
    /\ vm.size_x <= SpanSide /\ vm.size_y <= SpanSide /\ vm.size_z <= SpanSide
    /\ Len(vm.voxels) = vm.size_x * vm.size_y * vm.size_z

\* what a read past the end of voxels gives: a fault, or one of these bytes
OobOutcomes == {OobCrash, 0, 170}

\* the maps whose trees are handed to the allocator: an all-zero map, two maps
\* of one cell, two maps of the same size with one and with three tiles, two
\* maps of the same size with one voxel in different sub-cubes
AllocMaps ==
    { MakeMap(1, 1, 1, {}),
      MakeMap(1, 1, 1, {<<0, 0, 0, 7>>}),
      MakeMap(1, 1, 1, {<<0, 0, 0, 9>>}),
      MakeMap(17, 2, 3, {<<0, 0, 0, 1>>, <<1, 1, 2, 5>>}),
      MakeMap(17, 2, 3, {<<0, 0, 0, 1>>, <<1, 1, 2, 5>>, <<4, 0, 2, 8>>, <<5, 0, 0, 3>>,
                        <<16, 1, 1, 255>>}),
      MakeMap(17, 1, 1, {<<0, 0, 0, 5>>}),
      MakeMap(17, 1, 1, {<<16, 0, 0, 5>>}) }

\* the trees built from them (no read past the end of voxels is made)
AllocTrees == {SparseVoxelTree(m, OobCrash).tree : m \in AllocMaps}

\* the vectors of at most MaxTrees of these trees
TreeVectors == UNION {[1..n -> AllocTrees] : n \in 0..MaxTrees}


----------------------------------------------------------------------------
(* Specification Spec: one tree, built and queried *)

\* coordinates the queries are made at, per axis
Coords == {0 - 1, 0, 1, 4, 16, 17, 63, 64}
ShiftOutcomes == {"wrap", "zero"}

Init ==
    /\ pc = "run"
    /\ voxelMap = NoMap
    /\ tree = NoTree
    /\ gpuTrees = << >>
    /\ gpuNodePool = << >>
    /\ gpuLeafData = << >>
    /\ voxelTrees = << >>
    /\ ret = NoRet
    /\ build = NoBuild

\* SparseVoxelTree tree(voxelMap)
Construct(m) ==
    /\ pc = "run" /\ tree = NoTree /\ ret = NoRet
    /\ \E oob \in OobOutcomes :
          LET r == SparseVoxelTree(m, oob)
          IN /\ voxelMap' = m
             /\ IF r.fault
                THEN /\ pc' = "crashed"
                     /\ UNCHANGED <<tree, ret>>
                ELSE /\ tree' = r.tree
                     /\ ret' = [op |-> "SparseVoxelTree"]
                     /\ pc' = pc
    /\ UNCHANGED <<gpuTrees, gpuNodePool, gpuLeafData, voxelTrees, build>>

\* tree.At(x, y, z)
CallAt(x, y, z) ==
    /\ pc = "run" /\ tree # NoTree /\ ret = NoRet
    /\ \E shift \in ShiftOutcomes :
          LET r == At(tree, x, y, z, shift)
          IN IF r.fault
             THEN /\ pc' = "crashed"
                  /\ ret' = [op |-> "At", x |-> x, y |-> y, z |-> z, shift |-> shift, r |-> r]
             ELSE /\ pc' = pc
                  /\ ret' = [op |-> "At", x |-> x, y |-> y, z |-> z, shift |-> shift, r |-> r]
    /\ UNCHANGED <<voxelMap, tree, gpuTrees, gpuNodePool, gpuLeafData, voxelTrees, build>>

\* tree.ToVoxelMap()
CallToVoxelMap ==
    /\ pc = "run" /\ tree # NoTree /\ ret = NoRet
    /\ ret' = [op |-> "ToVoxelMap", map |-> ToVoxelMap(tree)]
    /\ UNCHANGED <<pc, voxelMap, tree, gpuTrees, gpuNodePool, gpuLeafData, voxelTrees, build>>

\* tree.GetTotalVoxels()
CallGetTotalVoxels ==
    /\ pc = "run" /\ tree # NoTree /\ ret = NoRet
    /\ ret' = [op |-> "GetTotalVoxels", val |-> GetTotalVoxels(tree)]
    /\ UNCHANGED <<pc, voxelMap, tree, gpuTrees, gpuNodePool, gpuLeafData, voxelTrees, build>>

\* CompareVoxelMaps(voxelMap, tree.ToVoxelMap())
CallCompareVoxelMaps ==
    /\ pc = "run" /\ tree # NoTree /\ ret = NoRet
    /\ \E oob \in OobOutcomes :
          LET r == CompareVoxelMaps(voxelMap, ToVoxelMap(tree), oob)
          IN /\ ret' = [op |-> "CompareVoxelMaps", r |-> r]
             /\ pc' = IF r.fault THEN "crashed" ELSE "run"
    /\ UNCHANGED <<voxelMap, tree, gpuTrees, gpuNodePool, gpuLeafData, voxelTrees, build>>

\* the caller takes the returned value; the next call can be made
Return ==
    /\ pc = "run" /\ ret # NoRet
    /\ ret' = NoRet
    /\ UNCHANGED <<pc, voxelMap, tree, gpuTrees, gpuNodePool, gpuLeafData, voxelTrees, build>>

Next ==
    \/ \E m \in Maps : Construct(m)
    \/ \E x \in Coords, y \in Coords, z \in Coords : CallAt(x, y, z)
    \/ CallToVoxelMap
    \/ CallGetTotalVoxels
    \/ CallCompareVoxelMaps
    \/ Return

Spec == Init /\ [][Next]_vars

----------------------------------------------------------------------------
(* The allocator: Allocate on a vector of trees, then CompareTree calls *)

\* allocator.Allocate(trees) (main.cpp:103); refill: the buffers held the
\* trees of an earlier call when this one was made
CallAllocate(list) ==
    /\ pc = "run" /\ ret = NoRet
    /\ LET g == Allocate(list)
       IN /\ gpuTrees' = g.gpuTrees
          /\ gpuNodePool' = g.gpuNodePool
          /\ gpuLeafData' = g.gpuLeafData
    /\ voxelTrees' = list
    /\ ret' = [op |-> "Allocate", refill |-> gpuTrees # << >>]
    /\ UNCHANGED <<pc, voxelMap, tree, build>>

\* allocator.CompareTree(t, index) (main.cpp:115)
CallCompareTree(t, index) ==
    /\ pc = "run" /\ ret = NoRet
    /\ \E oob \in OobNodeOutcomes :
          LET r == CompareTree([gpuTrees |-> gpuTrees, gpuNodePool |-> gpuNodePool,
                                gpuLeafData |-> gpuLeafData], t, index, oob)
          IN /\ ret' = [op |-> "CompareTree", tree |-> t, index |-> index, r |-> r]
             /\ pc' = IF r.fault THEN "crashed" ELSE "run"
    /\ UNCHANGED <<voxelMap, tree, gpuTrees, gpuNodePool, gpuLeafData, voxelTrees, build>>

NextAlloc ==
    \/ \E list \in TreeVectors : CallAllocate(list)
    \/ \E t \in AllocTrees, index \in 0..MaxTrees : CallCompareTree(t, index)
    \/ Return

SpecAlloc == Init /\ [][NextAlloc]_vars

----------------------------------------------------------------------------
(* The build, one generateTree call at a time *)

\* a child origin without the shift by the child's scale
childOriginUnscaled(pos, i, scale) ==
    [x |-> pos.x + (i % 4), y |-> pos.y + ((i \div 4) % 4), z |-> pos.z + ((i \div 16) % 4)]

\* pos + (childPos << scale), lines 111-112, scale being the child's scale
childOrigin(pos, i, scale) ==
    [x |-> pos.x + (i % 4) * 2^scale,
     y |-> pos.y + ((i \div 4) % 4) * 2^scale,
     z |-> pos.z + ((i \div 16) % 4) * 2^scale]

\* the frame of a generateTree call that descends: its arguments, the loop
\* index i of line 109, node.ChildMask and the vector children
Frame(scale, pos) ==
    [scale |-> scale, pos |-> pos, i |-> 0, ChildMask |-> {}, children |-> << >>]

\* lines 114-118 and the ++i of line 109 in frame f, child being what the call returned
KeepChild(f, child) ==
    IF child.ChildMask # {}
    THEN [f EXCEPT !.ChildMask = @ \cup {f.i}, !.children = Append(@, child), !.i = @ + 1]
    ELSE [f EXCEPT !.i = @ + 1]

\* a leaf test that lets the recursion go one level further down
LeafScaleZero(scale) == scale = 0

\* if (scale == 2), line 72: the call makes a leaf
LeafScale(scale) == scale = 2

\* assert((pos.x | pos.y | pos.z) % 4 == 0), line 74
LeafAssert(pos) == pos.x % 4 = 0 /\ pos.y % 4 = 0 /\ pos.z % 4 = 0

\* the maps built call by call
BuildMaps ==
    { MakeMap(1, 1, 1, {}),
      MakeMap(4, 4, 4, {<<1, 2, 3, 7>>}),
      MakeMap(17, 2, 3, {<<0, 0, 0, 1>>, <<1, 1, 2, 5>>, <<4, 0, 2, 8>>, <<5, 0, 0, 3>>,
                        <<16, 1, 1, 255>>}),
      DenseMap(5, 5, 5),
      MakeMap(65, 1, 1, {<<0, 0, 0, 1>>, <<64, 0, 0, 2>>}),
      [size_x |-> 2, size_y |-> 1, size_z |-> 1, voxels |-> <<5>>] }

Top == build.stack[Len(build.stack)]

\* the children put in front of the arena instead of at its end
InsertChildrenInFront(nodePool, children) == children \o nodePool

\* nodePool.insert(nodePool.end(), children.begin(), children.end()), line 122
InsertChildren(nodePool, children) == nodePool \o children

\* the constructor up to its call generateTree(voxelMap, 6, (0,0,0)), lines 15-35
BuildStart(m, oob) ==
    /\ pc = "run" /\ tree = NoTree /\ ret = NoRet
    /\ voxelMap' = m
    /\ tree' = [status |-> "building",
                root |-> [IsLeaf |-> 0, ChildPtr |-> 0, ChildMask |-> {}],
                nodePool |-> << >>, leafData |-> << >>,
                AABBMin |-> [x |-> 0, y |-> 0, z |-> 0],
                AABBMax |-> [x |-> ToFloat(m.size_x), y |-> ToFloat(m.size_y),
                             z |-> ToFloat(m.size_z)],
                Transform |-> Identity4]
    /\ build' = [NoBuild EXCEPT !.stack = <<Frame(RootScale, Origin)>>, !.oob = oob,
                                !.step = "call", !.call = [scale |-> RootScale, pos |-> Origin]]
    /\ pc' = "building"
    /\ UNCHANGED <<gpuTrees, gpuNodePool, gpuLeafData, voxelTrees, ret>>

\* line 112 in a call whose children are not leaves: the call of generateTree
\* for child i, up to its loop
BuildDescend ==
    /\ pc = "building" /\ Top.i < 64 /\ ~LeafScale(Top.scale - 2)
    /\ LET pos == childOrigin(Top.pos, Top.i, Top.scale - 2)
       IN build' = [build EXCEPT !.stack = Append(@, Frame(Top.scale - 2, pos)),
                                 !.step = "call",
                                 !.call = [scale |-> Top.scale - 2, pos |-> pos]]
    /\ UNCHANGED <<pc, voxelMap, tree, gpuTrees, gpuNodePool, gpuLeafData, voxelTrees, ret>>

\* line 112 in a call whose children are leaves: the whole leaf call for
\* child i (lines 72-102), then lines 114-118 on what it returned
BuildLeaf ==
    /\ pc = "building" /\ Top.i < 64 /\ LeafScale(Top.scale - 2)
    /\ LET pos == childOrigin(Top.pos, Top.i, Top.scale - 2)
           r == generateLeaf(voxelMap, pos, build.oob,
                             [nodePool |-> tree.nodePool, leafData |-> tree.leafData,
                              fault |-> FALSE])
       IN IF ~LeafAssert(pos) \/ r.fault
          THEN /\ pc' = "crashed"
               /\ build' = [build EXCEPT !.step = "leaf", !.call = [scale |-> Top.scale - 2, pos |-> pos]]
               /\ UNCHANGED tree
          ELSE /\ pc' = pc
               /\ tree' = [tree EXCEPT !.leafData = r.leafData]
               /\ build' = [build EXCEPT !.stack[Len(build.stack)] = KeepChild(@, r.node),
                                         !.step = "leaf",
                                         !.call = [scale |-> Top.scale - 2, pos |-> pos],
                                         !.returned = r.node]
    /\ UNCHANGED <<voxelMap, gpuTrees, gpuNodePool, gpuLeafData, voxelTrees, ret>>

\* lines 121-124 once the loop is done: the children are appended and the
\* node returned, to the calling frame or, from the root call, to GenerateTree
\* (line 35) and the constructor's caller
BuildReturn ==
    /\ pc = "building" /\ Top.i = 64
    /\ LET node == [IsLeaf |-> 0, ChildPtr |-> Len(tree.nodePool), ChildMask |-> Top.ChildMask]
           depth == Len(build.stack)
       IN IF depth > 1
          THEN /\ tree' = [tree EXCEPT !.nodePool = InsertChildren(@, Top.children)]
               /\ build' = [build EXCEPT
                               !.stack = [k \in 1..(depth - 1) |->
                                             IF k = depth - 1 THEN KeepChild(build.stack[k], node)
                                             ELSE build.stack[k]],
                               !.step = "return", !.returned = node]
               /\ UNCHANGED <<pc, ret>>
          ELSE /\ tree' = [tree EXCEPT !.nodePool = InsertChildren(@, Top.children), !.root = node,
                                       !.status = "built"]
               /\ build' = [build EXCEPT !.stack = << >>, !.step = "return", !.returned = node]
               /\ pc' = "run"
               /\ ret' = [op |-> "SparseVoxelTree"]
    /\ UNCHANGED <<voxelMap, gpuTrees, gpuNodePool, gpuLeafData, voxelTrees>>

NextBuild ==
    \/ \E m \in BuildMaps, oob \in OobOutcomes : BuildStart(m, oob)
    \/ BuildDescend
    \/ BuildLeaf
    \/ BuildReturn
    \/ \E x \in Coords, y \in Coords, z \in Coords : CallAt(x, y, z)
    \/ Return

SpecBuild == Init /\ [][NextBuild]_vars

----------------------------------------------------------------------------
(* Specification SpecRebuild: a constructed tree is generated again *)

\* the maps handed to GenerateTree on a tree that exists
RebuildMaps ==
    { MakeMap(1, 1, 1, {}),
      MakeMap(4, 4, 4, {<<1, 2, 3, 7>>}),
      StripedMap(17, 3, 2),
      [size_x |-> 2, size_y |-> 1, size_z |-> 1, voxels |-> <<5>>] }

\* tree.GenerateTree(m), the public member (sparse_voxel_tree.h:55), on the
\* constructed tree; voxelMap stays the map the constructor was given
CallGenerateTree(m) ==
    /\ pc = "run" /\ tree # NoTree /\ ret = NoRet
    /\ \E oob \in OobOutcomes :
          LET r == GenerateTree(tree, m, oob)
          IN IF r.fault
             THEN /\ pc' = "crashed"
                  /\ UNCHANGED <<tree, ret>>
             ELSE /\ tree' = r.tree
                  /\ ret' = [op |-> "GenerateTree", map |-> m, oob |-> oob]
                  /\ pc' = pc
    /\ UNCHANGED <<voxelMap, gpuTrees, gpuNodePool, gpuLeafData, voxelTrees, build>>

\* the maps a tree is constructed from and then constructed again from its
\* reconstruction; none of them is read past the end of its voxels
RoundTripMaps ==
    { MakeMap(0, 0, 0, {}),
      MakeMap(1, 1, 1, {<<0, 0, 0, 7>>}),
      MakeMap(4, 4, 4, {<<1, 2, 3, 7>>}),
      MakeMap(17, 2, 1, {<<16, 1, 0, 255>>, <<3, 0, 0, 4>>, <<15, 1, 0, 5>>}),
      MakeMap(64, 1, 1, {<<0, 0, 0, 1>>, <<63, 0, 0, 255>>, <<16, 0, 0, 3>>}),
      MakeMap(6, 5, 17, {<<0, 0, 0, 1>>, <<5, 4, 16, 2>>, <<3, 4, 3, 3>>, <<4, 4, 4, 4>>, <<1, 0, 16, 9>>}),
      DenseMap(5, 5, 5),
      StripedMap(3, 6, 17),
      [size_x |-> 1, size_y |-> 1, size_z |-> 1, voxels |-> <<5, 6>>] }

\* SparseVoxelTree tree(m); SparseVoxelTree again(tree.ToVoxelMap());
ConstructFromToVoxelMap(m) ==
    /\ pc = "run" /\ tree = NoTree /\ ret = NoRet
    /\ LET first == SparseVoxelTree(m, OobCrash)
           again == SparseVoxelTree(ReturnedMap(ToVoxelMap(first.tree)), OobCrash)
       IN /\ voxelMap' = m
          /\ tree' = first.tree
          /\ ret' = [op |-> "SparseVoxelTree again", again |-> again.tree]
          /\ pc' = IF first.fault \/ again.fault THEN "crashed" ELSE "run"
    /\ UNCHANGED <<gpuTrees, gpuNodePool, gpuLeafData, voxelTrees, build>>

NextRebuild ==
    \/ \E m \in Maps : Construct(m)
    \/ \E m \in RoundTripMaps : ConstructFromToVoxelMap(m)
    \/ \E m \in RebuildMaps : CallGenerateTree(m)
    \/ Return

SpecRebuild == Init /\ [][NextRebuild]_vars

----------------------------------------------------------------------------
(* Properties of Spec *)

\* the voxel of map vm at (x, y, z), 0 outside the map's dimensions
VoxelOf(vm, x, y, z) ==
    IF x < vm.size_x /\ y < vm.size_y /\ z < vm.size_z
    THEN vm.voxels[x + y * vm.size_x + z * vm.size_x * vm.size_y + 1]
    ELSE 0

\* the sizes of vm are within the span and voxels holds a byte for every cell
HasEveryCell(vm) ==
    /\ vm.size_x <= SpanSide /\ vm.size_y <= SpanSide /\ vm.size_z <= SpanSide
    /\ Len(vm.voxels) >= vm.size_x * vm.size_y * vm.size_z

InSpan(x, y, z) == x \in 0..63 /\ y \in 0..63 /\ z \in 0..63
PosOf(index) == [x |-> index % 64, y |-> (index \div 64) % 64, z |-> index \div 4096]

\* generateNode's shortcut on the cubes outside the map changes nothing: for
\* the map just constructed from, and each outcome of a read past the end of
\* voxels, the run that takes the shortcut and the run of every loop give the
\* same root, arenas and fault.
PruneSound ==
    ret.op = "SparseVoxelTree" =>
        \A oob \in OobOutcomes :
            LET empty == [nodePool |-> << >>, leafData |-> << >>, fault |-> FALSE]
            IN generateNode(voxelMap, RootScale, Origin, oob, empty, TRUE)
               = generateNode(voxelMap, RootScale, Origin, oob, empty, FALSE)

\* C1: the grid ToVoxelMap returns for the tree built from a well-formed map M
\* is 64 x 64 x 64, indexed x + 64*y + 4096*z, and holds M's voxel at every cell
\* inside M's dimensions and 0 at every other cell.  The grid is a zero-filled
\* vector with its written cells, so the cells are covered in three parts: the
\* written cells hold M's voxel there (0 outside M), the cells of M hold M's
\* voxel, and a cell neither written nor inside M reads 0.
C1_RoundTrip ==
    (ret.op = "ToVoxelMap" /\ WellFormed(voxelMap)) =>
        LET R == ret.map
        IN /\ R.size_x = 64 /\ R.size_y = 64 /\ R.size_z = 64
           /\ R.voxels.len = 64 * 64 * 64
           /\ \A index \in DOMAIN R.voxels.cells :
                 /\ index \in 0..(R.voxels.len - 1)
                 /\ R.voxels.cells[index]
                    = VoxelOf(voxelMap, PosOf(index).x, PosOf(index).y, PosOf(index).z)
           /\ \A x \in 0..(voxelMap.size_x - 1), y \in 0..(voxelMap.size_y - 1),
                 z \in 0..(voxelMap.size_z - 1) :
                 ZvRead(R.voxels, x + 64 * y + 4096 * z) = VoxelOf(voxelMap, x, y, z)

\* a round trip of a map with voxels in several tiles and sub-cubes and with
\* cells of the span outside its dimensions
C1_Witness ==
    /\ ret.op = "ToVoxelMap" /\ WellFormed(voxelMap)
    /\ voxelMap.size_x = 17 /\ voxelMap.size_y = 2
    /\ ZvRead(ret.map.voxels, 16 + 64 * 1) = 255
    /\ ZvRead(ret.map.voxels, 17 + 64 * 1) = 0

\* C2: on the tree built from a map M with sizes at most 64 (and a voxel for
\* every cell), At(x, y, z) for (x, y, z) in [0,64)^3 returns M's voxel at
\* (x, y, z) inside M's dimensions, so 0 where that voxel is 0, and 0 outside them.
C2_QueryConsistency ==
    (ret.op = "At" /\ HasEveryCell(voxelMap) /\ InSpan(ret.x, ret.y, ret.z)) =>
        /\ ~ret.r.fault
        /\ ret.r.val = VoxelOf(voxelMap, ret.x, ret.y, ret.z)

\* a query that goes down to a leaf in the second sub-cube along x and finds a voxel
C2_Witness ==
    /\ ret.op = "At" /\ WellFormed(voxelMap)
    /\ ret.x = 16 /\ ret.y = 1 /\ ret.z = 0
    /\ ret.r.val = 255
    /\ Len(ret.r.bits) = 3

\* C8: GetTotalVoxels of the tree built from a map M with sizes at most 64
\* (and a voxel for every cell) is the number of cells of M whose voxel is
\* not 0, and is leafData.size().
C8_TotalVoxels ==
    (ret.op = "GetTotalVoxels" /\ HasEveryCell(voxelMap)) =>
        /\ ret.val = Cardinality({k \in 1..(voxelMap.size_x * voxelMap.size_y * voxelMap.size_z) :
                                     voxelMap.voxels[k] # 0})
        /\ ret.val = Len(tree.leafData)

\* the count of a map with zero and non-zero cells in several tiles
C8_Witness ==
    /\ ret.op = "GetTotalVoxels" /\ WellFormed(voxelMap)
    /\ voxelMap.size_x = 17 /\ voxelMap.size_y = 3
    /\ ret.val = 68

\* C9: constructing a tree from a malformed map (a dimension above 64, or a
\* buffer whose length is not size_x*size_y*size_z) ends in an error and never
\* completes with a tree.
C9_MalformedFailsFast ==
    (voxelMap # NoMap /\ ~WellFormed(voxelMap)) => tree = NoTree

\* C10: an out-of-range query At(x, y, z) completes without a fault, every
\* bit index it computes is in 0..63 and every arena index it reads is inside
\* the arena.
C10_OutOfRangeQuerySafe ==
    (ret.op = "At" /\ ~InSpan(ret.x, ret.y, ret.z)) =>
        /\ ~ret.r.fault
        /\ \A k \in 1..Len(ret.r.bits) : ret.r.bits[k] \in 0..63
        /\ \A k \in 1..Len(ret.r.nodeReads) : ret.r.nodeReads[k] \in 0..(Len(tree.nodePool) - 1)
        /\ \A k \in 1..Len(ret.r.leafReads) : ret.r.leafReads[k] \in 0..(Len(tree.leafData) - 1)

\* every voxel of vm is 0 (vm has sizes within the span and a voxel for every cell)
AllZeroMap(vm) ==
    /\ HasEveryCell(vm)
    /\ \A k \in 1..(vm.size_x * vm.size_y * vm.size_z) : vm.voxels[k] = 0

\* C11: the tree built from an all-zero map with sizes at most 64 (sizes 0
\* included) has root ChildMask 0, an empty nodePool and an empty leafData,
\* and At(x, y, z) is 0 for every (x, y, z) in [0,64)^3: for each of them on
\* the tree just constructed, and in every At call made later.
C11_EmptyInput ==
    (tree # NoTree /\ AllZeroMap(voxelMap)) =>
        /\ tree.root.ChildMask = {}
        /\ tree.nodePool = << >>
        /\ tree.leafData = << >>
        /\ ret.op = "SparseVoxelTree" =>
              \A x \in 0..63, y \in 0..63, z \in 0..63 :
                  LET r == At(tree, x, y, z, "wrap") IN ~r.fault /\ r.val = 0
        /\ (ret.op = "At" /\ InSpan(ret.x, ret.y, ret.z)) => (~ret.r.fault /\ ret.r.val = 0)

\* a query in the second sub-cube of the tree of an all-zero map of several tiles
C11_Witness ==
    /\ ret.op = "At" /\ ret.x = 16 /\ ret.y = 4 /\ ret.z = 1
    /\ AllZeroMap(voxelMap) /\ voxelMap.size_x = 17
    /\ ret.r.val = 0

\* the 4 x 4 x 4 map whose only non-zero voxel is 7 at (1, 2, 3)
ScenarioMap == MakeMap(4, 4, 4, {<<1, 2, 3, 7>>})

\* C12: the tree built from the 4x4x4 map whose only non-zero voxel is 7 at
\* (1,2,3) has exactly one node with IsLeaf set, whose ChildMask is bit 57
\* alone (1 + 2*4 + 3*16), leafData is [7], At(1,2,3) is 7 and At(0,0,0) is 0.
C12_Scenario ==
    (tree # NoTree /\ voxelMap = ScenarioMap) =>
        LET leaves == {i \in 1..Len(tree.nodePool) : tree.nodePool[i].IsLeaf = 1}
        IN /\ Cardinality(leaves) = 1
           /\ tree.root.IsLeaf = 0
           /\ \A i \in leaves : tree.nodePool[i].ChildMask = {1 + 2 * 4 + 3 * 16}
           /\ tree.leafData = <<7>>
           /\ \A shift \in ShiftOutcomes :
                 /\ At(tree, 1, 2, 3, shift).val = 7 /\ ~At(tree, 1, 2, 3, shift).fault
                 /\ At(tree, 0, 0, 0, shift).val = 0 /\ ~At(tree, 0, 0, 0, shift).fault

\* the tree of the scenario has just been constructed
C12_Witness ==
    /\ ret.op = "SparseVoxelTree"
    /\ voxelMap = ScenarioMap
    /\ Len(tree.nodePool) = 2

FloatOfSize(size, stored) ==
    /\ size <= 2^24 => stored = size
    /\ size > 2^24 => (stored - size) * (2^24) <= size /\ (size - stored) * (2^24) <= size

NodeOf(t, n) == IF n = 0 THEN t.root ELSE t.nodePool[n]

\* the block [ChildPtr, ChildPtr + popcount(ChildMask)) of node n, as indices from 1
BlockOf(t, n) ==
    (NodeOf(t, n).ChildPtr + 1)..(NodeOf(t, n).ChildPtr + Cardinality(NodeOf(t, n).ChildMask))

\* the nodes reached from the nodes of `from` in at most `steps` descents; an
\* entry of a block that is not in nodePool is not a node
RECURSIVE ReachedFrom(_, _, _)
ReachedFrom(t, from, steps) ==
    IF steps = 0 THEN from
    ELSE LET below == UNION {BlockOf(t, n) \cap (1..Len(t.nodePool)) :
                                n \in {m \in from : NodeOf(t, m).IsLeaf = 0}}
         IN from \cup ReachedFrom(t, below, steps - 1)

\* the nodes reachable from the root (a descent goes through scales 6, 4, 2)
Reachable(t) == ReachedFrom(t, {0}, 3)

RECURSIVE SumOfPopcounts(_, _)
SumOfPopcounts(t, nodes) ==
    IF nodes = {} THEN 0
    ELSE LET n == CHOOSE m \in nodes : TRUE
         IN Cardinality(NodeOf(t, n).ChildMask) + SumOfPopcounts(t, nodes \ {n})

\* C16: in a built tree, the block [ChildPtr, ChildPtr + popcount(ChildMask))
\* of every node reachable from the root (the root included) lies inside its
\* arena (nodePool for an internal node, leafData for a leaf); the blocks of
\* distinct nodes of one kind are disjoint and together cover the arena, so
\* nodePool.size() is the sum of the popcounts of the internal nodes and
\* leafData.size() that of the leaves.
C16_SparsityAccounting ==
    tree # NoTree =>
        LET internal == {n \in Reachable(tree) : NodeOf(tree, n).IsLeaf = 0}
            leaves == {n \in Reachable(tree) : NodeOf(tree, n).IsLeaf = 1}
        IN /\ \A n \in internal : BlockOf(tree, n) \subseteq 1..Len(tree.nodePool)
           /\ \A n \in leaves : BlockOf(tree, n) \subseteq 1..Len(tree.leafData)
           /\ \A n, m \in internal : n # m => BlockOf(tree, n) \cap BlockOf(tree, m) = {}
           /\ \A n, m \in leaves : n # m => BlockOf(tree, n) \cap BlockOf(tree, m) = {}
           /\ UNION {BlockOf(tree, n) : n \in internal} = 1..Len(tree.nodePool)
           /\ UNION {BlockOf(tree, n) : n \in leaves} = 1..Len(tree.leafData)
           /\ Len(tree.nodePool) = SumOfPopcounts(tree, internal)
           /\ Len(tree.leafData) = SumOfPopcounts(tree, leaves)

\* a tree with several internal nodes and several leaves with more than one byte
C16_Witness ==
    /\ ret.op = "SparseVoxelTree"
    /\ Cardinality({n \in Reachable(tree) : NodeOf(tree, n).IsLeaf = 0}) >= 3
    /\ Cardinality({n \in Reachable(tree) : NodeOf(tree, n).IsLeaf = 1
                                            /\ Cardinality(NodeOf(tree, n).ChildMask) > 1}) >= 3

\* voxels holds a byte for every cell of vm
EveryCellStored(vm) == Len(vm.voxels) >= vm.size_x * vm.size_y * vm.size_z

\* the number of bits of mask below bit i
Rank(mask, i) == Cardinality({b \in mask : b < i})

\* the node that bit i of node n's mask stands for
ChildAt(t, n, i) == NodeOf(t, n).ChildPtr + Rank(NodeOf(t, n).ChildMask, i) + 1

\* the origin of child i of a node at origin pos whose children have side `side`
ChildOrigin(pos, i, side) ==
    [x |-> pos.x + (i % 4) * side,
     y |-> pos.y + ((i \div 4) % 4) * side,
     z |-> pos.z + ((i \div 16) % 4) * side]

\* the nodes of t below the root with the scale and origin of their cube:
\* the children of the root (scale 4) and their children (scale 2)
PlacedAt4(t) ==
    {[n |-> ChildAt(t, 0, i), scale |-> 4, pos |-> ChildOrigin([x |-> 0, y |-> 0, z |-> 0], i, 16)] :
        i \in t.root.ChildMask}
PlacedAt2(t) ==
    UNION {{[n |-> ChildAt(t, p.n, i), scale |-> 2, pos |-> ChildOrigin(p.pos, i, 4)] :
               i \in t.nodePool[p.n].ChildMask} : p \in PlacedAt4(t)}

\* the voxel of cell i of the tile at pos, 0 outside the map
CellOf(vm, pos, i) ==
    VoxelOf(vm, pos.x + (i % 4), pos.y + ((i \div 4) % 4), pos.z + ((i \div 16) % 4))

\* C17: for every leaf of a built tree, leafData[ChildPtr .. ChildPtr +
\* popcount(ChildMask) - 1] holds exactly the non-zero cells of the leaf's
\* 4x4x4 tile in ascending local index: the cell with local index i is stored
\* at ChildPtr + popcount(ChildMask & ((1 << i) - 1)), the block has one byte
\* per non-zero cell, and no stored byte is 0.
C17_LeftPack ==
    (tree # NoTree /\ EveryCellStored(voxelMap)) =>
        /\ \A n \in 1..Len(tree.nodePool) :
              tree.nodePool[n].IsLeaf = 1 => \E p \in PlacedAt2(tree) : p.n = n
        /\ \A p \in PlacedAt2(tree) :
              LET leaf == tree.nodePool[p.n]
                  cells == {i \in 0..63 : CellOf(voxelMap, p.pos, i) # 0}
              IN /\ leaf.IsLeaf = 1
                 /\ Cardinality(leaf.ChildMask) = Cardinality(cells)
                 /\ \A i \in cells :
                       tree.leafData[leaf.ChildPtr + Cardinality({c \in cells : c < i}) + 1]
                           = CellOf(voxelMap, p.pos, i)
                 /\ \A i \in leaf.ChildMask :
                       tree.leafData[leaf.ChildPtr + Rank(leaf.ChildMask, i) + 1]
                           = CellOf(voxelMap, p.pos, i)
        /\ \A k \in 1..Len(tree.leafData) : tree.leafData[k] # 0

\* a tree with a leaf that stores three or more different bytes, not at the
\* start of leafData and with a zero cell before its first stored one
C17_Witness ==
    /\ ret.op = "SparseVoxelTree" /\ EveryCellStored(voxelMap)
    /\ \E p \in PlacedAt2(tree) :
          LET leaf == tree.nodePool[p.n]
          IN /\ leaf.ChildPtr > 0
             /\ 0 \notin leaf.ChildMask
             /\ Cardinality({tree.leafData[leaf.ChildPtr + k] :
                                k \in 1..Cardinality(leaf.ChildMask)}) >= 3

\* the cube of side `side` at pos holds a non-zero voxel inside the map
CubeHasVoxel(vm, pos, side) ==
    \E x \in pos.x..(pos.x + side - 1), y \in pos.y..(pos.y + side - 1),
       z \in pos.z..(pos.z + side - 1) : VoxelOf(vm, x, y, z) # 0

\* bit i of the node n at pos, whose children have side `side`, is set iff
\* child cube i holds a non-zero voxel inside the map
MaskMeans(t, vm, n, pos, side) ==
    \A i \in 0..63 :
        (i \in NodeOf(t, n).ChildMask) <=> CubeHasVoxel(vm, ChildOrigin(pos, i, side), side)

\* C18: in a built tree, bit i of a leaf's ChildMask is set iff cell i of its
\* tile is inside the map and non-zero; bit i of an internal node's ChildMask
\* is set iff child sub-cube i (side 2^(scale-2), at the node's origin plus
\* (i&3, (i>>2)&3, (i>>4)&3) times that side) holds a non-zero voxel inside the
\* map; the child for bit i is the entry at ChildPtr plus the number of set
\* bits below i (kept children are in ascending i); no node of nodePool has
\* ChildMask 0.  Stated on the tree the constructor has just returned.
C18_MaskMeaning ==
    (ret.op = "SparseVoxelTree" /\ EveryCellStored(voxelMap)) =>
        /\ tree.root.IsLeaf = 0
        /\ MaskMeans(tree, voxelMap, 0, [x |-> 0, y |-> 0, z |-> 0], 16)
        /\ \A p \in PlacedAt4(tree) :
              /\ tree.nodePool[p.n].IsLeaf = 0
              /\ MaskMeans(tree, voxelMap, p.n, p.pos, 4)
        /\ \A p \in PlacedAt2(tree) :
              /\ tree.nodePool[p.n].IsLeaf = 1
              /\ \A i \in 0..63 :
                    (i \in tree.nodePool[p.n].ChildMask) <=> (CellOf(voxelMap, p.pos, i) # 0)
        /\ \A n \in 1..Len(tree.nodePool) :
              /\ tree.nodePool[n].ChildMask # {}
              /\ \E p \in PlacedAt4(tree) \cup PlacedAt2(tree) : p.n = n

\* a tree whose root, one internal node and one leaf each have several bits
\* set, the leaf one in the upper half of its mask
C18_Witness ==
    /\ ret.op = "SparseVoxelTree" /\ EveryCellStored(voxelMap)
    /\ Cardinality(tree.root.ChildMask) >= 2
    /\ \E p \in PlacedAt4(tree) : Cardinality(tree.nodePool[p.n].ChildMask) >= 2
    /\ \E p \in PlacedAt2(tree) :
          /\ Cardinality(tree.nodePool[p.n].ChildMask) >= 2
          /\ \E b \in tree.nodePool[p.n].ChildMask : b >= 32

\* C23: for a map M with sizes at most 64 (and a voxel for every cell),
\* CompareVoxelMaps(M, ToVoxelMap(tree built from M)) reads inside both
\* vectors and counts no discrepancy.
C23_CompareVoxelMapsAgrees ==
    (ret.op = "CompareVoxelMaps" /\ HasEveryCell(voxelMap)) =>
        /\ ~ret.r.fault
        /\ ret.r.count = 0

\* when the count is not 0: M's sizes are not the grid's, and the round trip
\* itself lost nothing (the grid holds M's voxel at every cell of M)
DiscrepanciesComeFromTheIndex ==
    (ret.op = "CompareVoxelMaps" /\ HasEveryCell(voxelMap) /\ ret.r.count # 0) =>
        /\ voxelMap.size_x # SpanSide
        /\ voxelMap.size_y > 1 \/ voxelMap.size_z > 1
        /\ LET R == ToVoxelMap(tree)
           IN \A x \in 0..(voxelMap.size_x - 1), y \in 0..(voxelMap.size_y - 1),
                 z \in 0..(voxelMap.size_z - 1) :
                 ZvRead(R.voxels, x + 64 * y + 4096 * z) = VoxelOf(voxelMap, x, y, z)

\* C26: in a built tree, the children of an internal node stored at index n
\* of nodePool (from 0) are the entries ChildPtr .. ChildPtr +
\* popcount(ChildMask) - 1, one after the other and all below n; the root's
\* children are the last entries: root.ChildPtr + popcount(root.ChildMask)
\* is nodePool.size().
C26_BottomUpLayout ==
    tree # NoTree =>
        /\ \A n \in 1..Len(tree.nodePool) :
              tree.nodePool[n].IsLeaf = 0 =>
                  /\ tree.nodePool[n].ChildPtr + popcount64(tree.nodePool[n].ChildMask) <= n - 1
                  /\ {ChildAt(tree, n, i) : i \in tree.nodePool[n].ChildMask} = BlockOf(tree, n)
                  /\ \A c \in BlockOf(tree, n) : c >= 1 /\ c < n
        /\ {ChildAt(tree, 0, i) : i \in tree.root.ChildMask} = BlockOf(tree, 0)
        /\ tree.root.ChildPtr + popcount64(tree.root.ChildMask) = Len(tree.nodePool)

\* a tree with two internal nodes in nodePool, the second with several
\* children that do not start at index 0
C26_Witness ==
    /\ ret.op = "SparseVoxelTree"
    /\ tree.root.ChildPtr > 0
    /\ Cardinality(tree.root.ChildMask) >= 2
    /\ \E n \in 1..Len(tree.nodePool) :
          /\ tree.nodePool[n].IsLeaf = 0
          /\ tree.nodePool[n].ChildPtr > 0
          /\ Cardinality(tree.nodePool[n].ChildMask) >= 2

\* C27: in a built tree the root has IsLeaf 0 (for an empty map and for a
\* map of one tile as well), every node the root's mask refers to is in
\* nodePool with IsLeaf 0 and every node those refer to is in nodePool with
\* IsLeaf 1; a tree with a non-empty root mask has two nodePool entries or
\* more; the block of an internal node is a range of nodePool and the block
\* of a leaf a range of leafData.
C27_IsLeafByDepth ==
    tree # NoTree =>
        /\ tree.root.IsLeaf = 0
        /\ BlockOf(tree, 0) \subseteq 1..Len(tree.nodePool)
        /\ \A p \in PlacedAt4(tree) :
              /\ p.n \in 1..Len(tree.nodePool)
              /\ tree.nodePool[p.n].IsLeaf = 0
              /\ BlockOf(tree, p.n) \subseteq 1..Len(tree.nodePool)
        /\ \A p \in PlacedAt2(tree) :
              /\ p.n \in 1..Len(tree.nodePool)
              /\ tree.nodePool[p.n].IsLeaf = 1
              /\ BlockOf(tree, p.n) \subseteq 1..Len(tree.leafData)
        /\ \A n \in 1..Len(tree.nodePool) :
              \E p \in PlacedAt4(tree) \cup PlacedAt2(tree) : p.n = n
        /\ tree.root.ChildMask # {} => Len(tree.nodePool) >= 2
        /\ tree.root.ChildMask = {} => tree.nodePool = << >>

\* the tree of a map that fits one tile: a root, one internal node and one leaf
C27_Witness ==
    /\ ret.op = "SparseVoxelTree"
    /\ voxelMap.size_x = 4 /\ voxelMap.size_y = 4 /\ voxelMap.size_z = 4
    /\ tree.root = [IsLeaf |-> 0, ChildPtr |-> 1, ChildMask |-> {0}]
    /\ Len(tree.nodePool) = 2
    /\ tree.nodePool[1].IsLeaf = 1 /\ tree.nodePool[2].IsLeaf = 0

----------------------------------------------------------------------------
(* Properties of SpecBuild *)

\* the build run call by call gives the tree the constructor gives
BuildAgrees ==
    (build.step = "return" /\ pc = "run") =>
        LET r == SparseVoxelTree(voxelMap, build.oob)
        IN ~r.fault /\ tree = r.tree

Aligned(pos, scale) ==
    /\ pos.x % (2^scale) = 0 /\ pos.y % (2^scale) = 0 /\ pos.z % (2^scale) = 0
    /\ InSpan(pos.x, pos.y, pos.z)

\* C19: in a build started at scale 6 and origin (0,0,0), every call of
\* generateTree at scale s gets an origin whose components are multiples of
\* 2^s inside [0,64); so a call at scale 2 gets multiples of 4 and the
\* assertion of line 74 holds in each of them.
C19_Alignment ==
    build.step # "none" =>
        /\ Aligned(build.call.pos, build.call.scale)
        /\ \A k \in 1..Len(build.stack) : Aligned(build.stack[k].pos, build.stack[k].scale)
        /\ build.step = "leaf" =>
              /\ build.call.scale = 2
              /\ LeafAssert(build.call.pos)
              /\ build.call.pos.x % 4 = 0 /\ build.call.pos.y % 4 = 0 /\ build.call.pos.z % 4 = 0

\* the last leaf call of a build: the tile at (60,60,60), under the node at (48,48,48)
C19_Witness ==
    /\ build.step = "leaf" /\ pc = "building"
    /\ build.call = [scale |-> 2, pos |-> [x |-> 60, y |-> 60, z |-> 60]]
    /\ Len(build.stack) = 2 /\ Top.pos = [x |-> 48, y |-> 48, z |-> 48]

IsPrefix(s, t) == Len(s) <= Len(t) /\ \A k \in 1..Len(s) : t[k] = s[k]

\* C20: in every step of a build nodePool and leafData keep what they hold
\* and grow only at their end; the node a step returns has as ChildPtr the
\* size its arena had just before the step appended that node's leaf bytes
\* (a leaf) or children (an inner node), popcount(ChildMask) of them.
C20_AppendOnly ==
    [][pc = "building" =>
          /\ IsPrefix(tree.nodePool, tree'.nodePool)
          /\ IsPrefix(tree.leafData, tree'.leafData)
          /\ (build'.step = "leaf" /\ pc' # "crashed") =>
                /\ build'.returned.IsLeaf = 1
                /\ build'.returned.ChildPtr = Len(tree.leafData)
                /\ Len(tree'.leafData) = Len(tree.leafData) + popcount64(build'.returned.ChildMask)
                /\ tree'.nodePool = tree.nodePool
          /\ build'.step = "return" =>
                /\ build'.returned.IsLeaf = 0
                /\ build'.returned.ChildPtr = Len(tree.nodePool)
                /\ Len(tree'.nodePool) = Len(tree.nodePool) + popcount64(build'.returned.ChildMask)
                /\ \A k \in 1..popcount64(build'.returned.ChildMask) :
                      tree'.nodePool[Len(tree.nodePool) + k] = Top.children[k]
                /\ tree'.leafData = tree.leafData
          /\ build'.step = "call" => tree' = tree]_vars

\* an inner node has returned after appending its children behind entries
\* written earlier, and a leaf after appending its bytes behind earlier ones
C20_Witness ==
    /\ build.step = "return"
    /\ build.returned.ChildPtr > 0 /\ build.returned.ChildMask # {}
    /\ Len(tree.nodePool) > build.returned.ChildPtr
    /\ \E k \in 1..Len(tree.nodePool) :
          /\ tree.nodePool[k].IsLeaf = 1 /\ tree.nodePool[k].ChildPtr > 0
          /\ tree.nodePool[k].ChildMask # {}

\* C21: At(x, y, z) with (x, y, z) in [0,64)^3 on a built tree visits at
\* most 3 nodes (the root, one node read from nodePool at scale 4 and one leaf
\* read from nodePool) and reads at most one byte of leafData; the calls of a
\* build are at scales 6, 4 and 2 only and never nest deeper than 3: the root
\* call, a call at scale 4 inside it and a leaf call inside that.
C21_BoundedDescent ==
    /\ (ret.op = "At" /\ InSpan(ret.x, ret.y, ret.z)) =>
          /\ Len(ret.r.bits) <= 3
          /\ Len(ret.r.nodeReads) <= 2
          /\ Len(ret.r.leafReads) <= 1
          /\ Len(ret.r.nodeReads) = Len(ret.r.bits) - 1
    /\ build.step # "none" =>
          /\ build.call.scale \in {6, 4, 2}
          /\ Len(build.stack) <= 2
          /\ \A k \in 1..Len(build.stack) : build.stack[k].scale = 8 - 2 * k
          /\ build.step = "leaf" => build.call.scale = 2
          /\ build.step = "call" => build.call.scale = 8 - 2 * Len(build.stack)

\* a query that went through three nodes to a byte, on a tree whose build
\* went three calls deep
C21_Witness ==
    /\ ret.op = "At" /\ InSpan(ret.x, ret.y, ret.z)
    /\ Len(ret.r.bits) = 3 /\ Len(ret.r.leafReads) = 1 /\ ret.r.val # 0
    /\ build.step = "return" /\ tree.status = "built"



----------------------------------------------------------------------------
(* Properties of SpecAlloc *)

\* the trees of the last Allocate call before the k-th one hold this many nodes / bytes
RECURSIVE NodesBefore(_)
NodesBefore(k) == IF k <= 1 THEN 0 ELSE NodesBefore(k - 1) + Len(voxelTrees[k - 1].nodePool)
RECURSIVE BytesBefore(_)
BytesBefore(k) == IF k <= 1 THEN 0 ELSE BytesBefore(k - 1) + Len(voxelTrees[k - 1].leafData)

\* the packed nodePools / the leafData of the first k trees, one after the other
RECURSIVE PackedNodesUpTo(_)
PackedNodesUpTo(k) ==
    IF k = 0 THEN << >>
    ELSE PackedNodesUpTo(k - 1)
         \o [i \in 1..Len(voxelTrees[k].nodePool) |-> PackNode(voxelTrees[k].nodePool[i])]
RECURSIVE LeafBytesUpTo(_)
LeafBytesUpTo(k) == IF k = 0 THEN << >> ELSE LeafBytesUpTo(k - 1) \o voxelTrees[k].leafData

\* the value of a word given by its 1 bits, all below bit 31
RECURSIVE ValueOf(_)
ValueOf(bits) ==
    IF bits = {} THEN 0
    ELSE LET b == CHOOSE c \in bits : TRUE IN 2^b + ValueOf(bits \ {b})

\* the decoding of a packed node: word0 >> 31, word0 & 0x7FFFFFFF, (word2 << 32) | word1
Decode(w) ==
    [IsLeaf |-> IF 31 \in w.w0 THEN 1 ELSE 0,
     ChildPtr |-> ValueOf(w.w0 \cap (0..30)),
     ChildMask |-> {b + 32 : b \in w.w2} \cup w.w1]

\* the three words w are the claimed encoding of node
EncodesNode(w, node) ==
    /\ w.w0 \subseteq 0..31 /\ w.w1 \subseteq 0..31 /\ w.w2 \subseteq 0..31
    /\ (31 \in w.w0) <=> (node.IsLeaf = 1)
    /\ ValueOf(w.w0 \ {31}) = node.ChildPtr
    /\ \A b \in 0..31 : /\ (b \in w.w1) <=> (b \in node.ChildMask)
                        /\ (b \in w.w2) <=> (b + 32 \in node.ChildMask)
    /\ Decode(w) = node

\* t differs from what Allocate stored for the tree at index: the index is past
\* the descriptors, or the AABB or the Transform differs, or an arena of t has
\* another length than the stored tree's, or a node or byte of t differs from
\* the entry at the descriptor's offset plus its position
Mismatch(t, index) ==
    \/ index >= Len(gpuTrees)
    \/ LET d == gpuTrees[index + 1]
           src == voxelTrees[index + 1]
       IN \/ d.AABBMin # t.AABBMin \/ d.AABBMax # t.AABBMax \/ d.Transform # t.Transform
          \/ Len(t.nodePool) # Len(src.nodePool)
          \/ Len(t.leafData) # Len(src.leafData)
          \/ \E i \in 1..Len(t.nodePool) :
                \/ d.NodePoolPtr + i > Len(gpuNodePool)
                \/ gpuNodePool[d.NodePoolPtr + i] # PackNode(t.nodePool[i])
          \/ \E i \in 1..Len(t.leafData) :
                \/ d.LeafDataPtr + i > Len(gpuLeafData)
                \/ gpuLeafData[d.LeafDataPtr + i] # t.leafData[i]

\* C3: after Allocate(trees), CompareTree(trees[k], k) returns true for every
\* index k of the vector, the trees built from all-zero maps included.
C3_CompareTreeAccepts ==
    (/\ ret.op = "CompareTree"
     /\ ret.index < Len(voxelTrees)
     /\ ret.tree = voxelTrees[ret.index + 1]) => (~ret.r.fault /\ ret.r.val)

\* C4: CompareTree(t, index) returns false whenever the index is past the
\* descriptors or t differs from the stored tree in its AABB, its Transform,
\* a node, a byte or the length of an arena (calls that read past the end of
\* gpuNodePool left aside).
C4_CompareTreeRejects ==
    (ret.op = "CompareTree" /\ ~ret.r.oobRead /\ Mismatch(ret.tree, ret.index))
        => (~ret.r.fault /\ ~ret.r.val)

C6_FlatBuffers ==
    /\ gpuNodePool = PackedNodesUpTo(Len(voxelTrees))
    /\ gpuLeafData = LeafBytesUpTo(Len(voxelTrees))
    /\ Len(gpuNodePool) = NodesBefore(Len(voxelTrees) + 1)
    /\ Len(gpuLeafData) = BytesBefore(Len(voxelTrees) + 1)

\* two trees with different arenas, both with nodes and bytes, have been packed
C6_Witness ==
    /\ ret.op = "Allocate"
    /\ Len(voxelTrees) = 2
    /\ Len(voxelTrees[1].nodePool) > 2 /\ Len(voxelTrees[2].nodePool) = 2
    /\ voxelTrees[1].leafData # << >> /\ voxelTrees[2].leafData # << >>
    /\ Len(gpuNodePool) > 4

\* C7: every node the allocator packs (the root of each descriptor and each
\* nodePool entry) has word0 = (IsLeaf << 31) | ChildPtr, word1 = the low and
\* word2 = the high 32 bits of ChildMask, and decodes to the node it came from.
C7_PackedEncoding ==
    \A k \in 1..Len(gpuTrees) :
        /\ EncodesNode(gpuTrees[k].Root, voxelTrees[k].root)
        /\ \A i \in 1..Len(voxelTrees[k].nodePool) :
              EncodesNode(gpuNodePool[gpuTrees[k].NodePoolPtr + i], voxelTrees[k].nodePool[i])

\* a packed leaf with a ChildPtr above 0 and mask bits in both halves, behind
\* another tree's nodes
C7_Witness ==
    /\ ret.op = "Allocate"
    /\ Len(gpuTrees) = 2 /\ gpuTrees[2].NodePoolPtr > 0
    /\ \E i \in 1..Len(voxelTrees[2].nodePool) :
          LET w == gpuNodePool[gpuTrees[2].NodePoolPtr + i]
          IN /\ 31 \in w.w0 /\ w.w0 # {31}
             /\ w.w1 # {} /\ w.w2 # {}

\* C13: a CompareTree call, whatever the tree and the index (one past the
\* descriptors included), ends by returning a boolean, and leaves the
\* descriptors, both flat buffers and the trees of the vector as they were.
C13_CompareTreeOnlyReports ==
    [][ret'.op = "CompareTree" =>
          /\ ret'.r.val \in BOOLEAN
          /\ ~ret'.r.fault /\ pc' = "run"
          /\ gpuTrees' = gpuTrees
          /\ gpuNodePool' = gpuNodePool
          /\ gpuLeafData' = gpuLeafData
          /\ voxelTrees' = voxelTrees]_vars

\* a call with the index one past the descriptors has returned false
C13_Witness ==
    /\ ret.op = "CompareTree"
    /\ Len(gpuTrees) = 2 /\ ret.index = 2
    /\ ret.r.val = FALSE /\ pc = "run"

RECURSIVE flatAt(_, _, _, _, _, _, _)
flatAt(k, w, scale, pos, x, y, z) ==
    LET node == Decode(w)
        i == IF node.IsLeaf = 1
             THEN (x - pos.x) + (y - pos.y) * 4 + (z - pos.z) * 16
             ELSE ((x - pos.x) \div 2^(scale - 2)) + ((y - pos.y) \div 2^(scale - 2)) * 4
                  + ((z - pos.z) \div 2^(scale - 2)) * 16
        rank == popcount64(node.ChildMask \cap {b \in 0..63 : b < i})
    IN IF i \notin node.ChildMask THEN [val |-> 0, inside |-> TRUE]
       ELSE IF node.IsLeaf = 1
       THEN LET index == gpuTrees[k].LeafDataPtr + node.ChildPtr + rank
            IN IF index < Len(gpuLeafData)
               THEN [val |-> gpuLeafData[index + 1], inside |-> TRUE]
               ELSE [val |-> 0, inside |-> FALSE]
       ELSE LET index == gpuTrees[k].NodePoolPtr + node.ChildPtr + rank
            IN IF index < Len(gpuNodePool)
               THEN flatAt(k, gpuNodePool[index + 1], scale - 2,
                           [x |-> pos.x + (i % 4) * 2^(scale - 2),
                            y |-> pos.y + ((i \div 4) % 4) * 2^(scale - 2),
                            z |-> pos.z + ((i \div 16) % 4) * 2^(scale - 2)], x, y, z)
               ELSE [val |-> 0, inside |-> FALSE]

FlatAt(k, x, y, z) == flatAt(k, gpuTrees[k].Root, RootScale, Origin, x, y, z)

\* the coordinates the lookups are compared at: every cell of the maps the
\* trees come from, their neighbours outside the maps and the far corner
FlatXs == (0..18) \cup {63}
FlatYs == (0..3) \cup {63}
FlatZs == (0..4) \cup {63}

\* C22: after Allocate(T0..Tn), for every k and (x, y, z), the descent made on
\* descriptor k and the flat buffers alone (child at NodePoolPtr + ChildPtr +
\* rank, byte at LeafDataPtr + ChildPtr + rank) reads only inside the flat
\* buffers and gives Tk.At(x, y, z); each packed node holds the ChildPtr its
\* node has in its own tree.
C22_FlatLookup ==
    ret.op = "Allocate" =>
        \A k \in 1..Len(gpuTrees) :
            /\ Decode(gpuTrees[k].Root).ChildPtr = voxelTrees[k].root.ChildPtr
            /\ \A i \in 1..Len(voxelTrees[k].nodePool) :
                  Decode(gpuNodePool[gpuTrees[k].NodePoolPtr + i]).ChildPtr
                  = voxelTrees[k].nodePool[i].ChildPtr
            /\ \A x \in FlatXs, y \in FlatYs, z \in FlatZs :
                  LET f == FlatAt(k, x, y, z)
                      a == At(voxelTrees[k], x, y, z, "wrap")
                  IN f.inside /\ ~a.fault /\ f.val = a.val

\* the lookup in the second of two trees finds a voxel through nodes and a
\* byte that sit behind the first tree's
C22_Witness ==
    /\ ret.op = "Allocate" /\ Len(gpuTrees) = 2
    /\ gpuTrees[2].NodePoolPtr > 0 /\ gpuTrees[2].LeafDataPtr > 0
    /\ FlatAt(2, 16, 1, 1).val = 255
    /\ FlatAt(1, 16, 1, 1).val = 0
    /\ FlatAt(1, 16, 0, 0).val = 5

\* C24: in every allocator state Allocate produces from built trees, a
\* CompareTree call, for every built tree and every index, reads gpuNodePool
\* and gpuLeafData only below their sizes (the read at NodePoolPtr + i of the
\* node loop included), so no call faults.
C24_CompareTreeInsideBuffers ==
    ret.op = "CompareTree" => (~ret.r.oobRead /\ ~ret.r.fault)

\* a call whose tree has more nodes than the flat buffer holds from the
\* descriptor's offset on, with the descriptor's box and offsets passing the
\* tests before the loops: the loop returned at a node that differs, before
\* NodePoolPtr + i reached the end
C24_Witness ==
    /\ ret.op = "CompareTree" /\ ret.index < Len(gpuTrees)
    /\ gpuTrees[ret.index + 1].AABBMax = ret.tree.AABBMax
    /\ gpuTrees[ret.index + 1].NodePoolPtr > 0
    /\ gpuTrees[ret.index + 1].NodePoolPtr < Len(gpuNodePool)
    /\ gpuTrees[ret.index + 1].LeafDataPtr < Len(gpuLeafData)
    /\ gpuTrees[ret.index + 1].NodePoolPtr + Len(ret.tree.nodePool) > Len(gpuNodePool)
    /\ Len(ret.tree.nodePool) <= Len(gpuNodePool)
    /\ gpuNodePool[gpuTrees[ret.index + 1].NodePoolPtr + 1] = PackNode(ret.tree.nodePool[1])
    /\ ~ret.r.val /\ ~ret.r.oobRead

\* C25: whenever CompareTree(tree, k) returns true, the packed root of tree
\* is the Root stored in descriptor k.
C25_CompareTreeChecksRoot ==
    (ret.op = "CompareTree" /\ ~ret.r.fault /\ ret.r.val) =>
        /\ ret.index < Len(gpuTrees)
        /\ PackNode(ret.tree.root) = gpuTrees[ret.index + 1].Root

\* the descriptors and flat buffers are what packing the vector voxelTrees
\* into empty buffers gives
HoldsOnlyLastInput ==
    /\ Len(gpuTrees) = Len(voxelTrees)
    /\ \A k \in 1..Len(voxelTrees) :
          gpuTrees[k] = [Root |-> PackNode(voxelTrees[k].root),
                         AABBMin |-> voxelTrees[k].AABBMin,
                         AABBMax |-> voxelTrees[k].AABBMax,
                         Transform |-> voxelTrees[k].Transform,
                         NodePoolPtr |-> NodesBefore(k), LeafDataPtr |-> BytesBefore(k)]
    /\ gpuNodePool = PackedNodesUpTo(Len(voxelTrees))
    /\ gpuLeafData = LeafBytesUpTo(Len(voxelTrees))

\* C28: every Allocate(trees) call, whatever earlier calls left in the
\* allocator, ends with the descriptors and flat buffers holding the packing
\* of trees alone; a call with the vector of the call before it leaves the
\* allocator as that call left it.
C28_AllocateFromScratch ==
    [][ret'.op = "Allocate" =>
          /\ HoldsOnlyLastInput'
          /\ voxelTrees' = voxelTrees =>
                /\ gpuTrees' = gpuTrees
                /\ gpuNodePool' = gpuNodePool
                /\ gpuLeafData' = gpuLeafData]_vars

\* a call made on buffers an earlier call had filled, with one tree: the
\* buffers hold that tree's nodes and bytes and nothing else
C28_Witness ==
    /\ ret.op = "Allocate" /\ ret.refill
    /\ Len(voxelTrees) = 1 /\ Len(gpuTrees) = 1
    /\ Len(gpuNodePool) = Len(voxelTrees[1].nodePool) /\ Len(gpuNodePool) = 2
    /\ gpuLeafData = voxelTrees[1].leafData /\ gpuLeafData # << >>

----------------------------------------------------------------------------
(* Properties of SpecRebuild *)

\* C29: GenerateTree(M2) on a tree constructed from M1 (and possibly
\* generated again since) leaves it with the root, nodePool and leafData of a
\* tree freshly constructed from M2, and with AABBMin, AABBMax and Transform
\* as they were: AABBMax is still the one the constructor set from M1.
C29_RebuildInPlace ==
    [][ret'.op = "GenerateTree" =>
          LET fresh == SparseVoxelTree(ret'.map, ret'.oob).tree
          IN /\ tree'.root = fresh.root
             /\ tree'.nodePool = fresh.nodePool
             /\ tree'.leafData = fresh.leafData
             /\ tree'.AABBMin = tree.AABBMin
             /\ tree'.AABBMax = tree.AABBMax
             /\ tree'.Transform = tree.Transform
             /\ tree'.AABBMax = [x |-> ToFloat(voxelMap.size_x), y |-> ToFloat(voxelMap.size_y),
                                 z |-> ToFloat(voxelMap.size_z)]]_vars

\* a tree constructed from a 6x5x17 map with several nodes and bytes has been
\* generated again from the 4x4x4 map with one voxel
C29_Witness ==
    /\ ret.op = "GenerateTree"
    /\ ret.map = MakeMap(4, 4, 4, {<<1, 2, 3, 7>>})
    /\ voxelMap.size_x = 6 /\ voxelMap.size_z = 17
    /\ tree.AABBMax = [x |-> 6, y |-> 5, z |-> 17]
    /\ tree.leafData = <<7>> /\ Len(tree.nodePool) = 2

\* C30: for a tree T built from a map with sizes at most 64 (and a voxel for
\* every cell), the tree built from T.ToVoxelMap() has T's root, nodePool and
\* leafData; its AABBMax is (64, 64, 64), its AABBMin and Transform are T's.
C30_RebuildFixedPoint ==
    (ret.op = "SparseVoxelTree again" /\ HasEveryCell(voxelMap)) =>
        /\ pc = "run"
        /\ ret.again.root = tree.root
        /\ ret.again.nodePool = tree.nodePool
        /\ ret.again.leafData = tree.leafData
        /\ ret.again.AABBMax = [x |-> 64, y |-> 64, z |-> 64]
        /\ ret.again.AABBMin = tree.AABBMin
        /\ ret.again.Transform = tree.Transform

\* a tree with several internal nodes and leaves, built from a 6x5x17 map,
\* and the tree built from its reconstruction
C30_Witness ==
    /\ ret.op = "SparseVoxelTree again" /\ HasEveryCell(voxelMap)
    /\ voxelMap.size_x = 6 /\ voxelMap.size_z = 17
    /\ Len(ret.again.nodePool) = 7 /\ Len(ret.again.leafData) = 5
    /\ ret.again.AABBMax # tree.AABBMax

====
